---- MODULE Spec2Model ----
(***************************************************************************)
(* Model of the security.txt line parser (src/src/lib.rs).                 *)
(*                                                                         *)
(* A Rust &str is modelled as a sequence of one-character strings, so that *)
(* splitting, prefix stripping and lowercasing are computed character by   *)
(* character as the code computes them.  The parser is a pair of pure      *)
(* functions (Field::from_str, Line::from_str); the state machine draws an *)
(* input line and applies each of them once.                               *)
(***************************************************************************)
EXTENDS Integers, Sequences, FiniteSets, TLC

VARIABLES line, fieldResult, lineResult

vars == <<line, fieldResult, lineResult>>

(***************************************************************************)
(* Characters                                                              *)
(***************************************************************************)
UpperChars == <<"A","B","C","D","E","F","G","H","I","J","K","L","M",
                "N","O","P","Q","R","S","T","U","V","W","X","Y","Z">>
LowerChars == <<"a","b","c","d","e","f","g","h","i","j","k","l","m",
                "n","o","p","q","r","s","t","u","v","w","x","y","z">>
DigitChars == {"0","1","2","3","4","5","6","7","8","9"}

Range(s) == {s[i] : i \in DOMAIN s}

IsUpper(c) == c \in Range(UpperChars)
IsLower(c) == c \in Range(LowerChars)
IsAlpha(c) == IsUpper(c) \/ IsLower(c)
IsAlnum(c) == IsAlpha(c) \/ c \in DigitChars

\* char::to_lowercase / char::to_uppercase on the ASCII range
LowerChar(c) ==
    IF IsUpper(c) THEN LowerChars[CHOOSE i \in DOMAIN UpperChars : UpperChars[i] = c]
    ELSE c
UpperChar(c) ==
    IF IsLower(c) THEN UpperChars[CHOOSE i \in DOMAIN LowerChars : LowerChars[i] = c]
    ELSE c

\* The mutant keeps a leading capital (lowercases all but the first char).
to_lowercase_KeepFirst(s) == [i \in DOMAIN s |-> IF i = 1 THEN s[i] ELSE LowerChar(s[i])]

\* str::to_lowercase: every character lowercased, nothing added or removed
to_lowercase(s) == [i \in DOMAIN s |-> LowerChar(s[i])]

Suffix(s, i) == SubSeq(s, i, Len(s))
Prefix(s, i) == SubSeq(s, 1, i)

\* Index of the first / last occurrence of character c in s, 0 when absent
FirstIndex(s, c) ==
    IF \E i \in DOMAIN s : s[i] = c
    THEN CHOOSE i \in DOMAIN s : s[i] = c /\ \A j \in 1..(i-1) : s[j] # c
    ELSE 0
LastIndex(s, c) ==
    IF \E i \in DOMAIN s : s[i] = c
    THEN CHOOSE i \in DOMAIN s : s[i] = c /\ \A j \in (i+1)..Len(s) : s[j] # c
    ELSE 0

\* str::trim restricted to the space character
RECURSIVE TrimStart(_)
TrimStart(s) == IF s # <<>> /\ s[1] = " " THEN TrimStart(Tail(s)) ELSE s
RECURSIVE TrimEnd(_)
TrimEnd(s) == IF s # <<>> /\ s[Len(s)] = " " THEN TrimEnd(Prefix(s, Len(s) - 1)) ELSE s
Trim(s) == TrimEnd(TrimStart(s))

(***************************************************************************)
(* Splitting: str::splitn(2, pat), str::split(pat), split_at_str           *)
(***************************************************************************)
\* The mutant splits at the LAST occurrence of the pattern (rsplitn order).
splitn2_Last(string, pattern) ==
    LET i == LastIndex(string, pattern) IN
    IF i = 0 THEN <<string>>
    ELSE <<Prefix(string, i - 1), Suffix(string, i + 1)>>

\* The mutant yields no piece at all for the empty string.
splitn2_EmptyNone(string, pattern) ==
    LET i == FirstIndex(string, pattern) IN
    IF string = <<>> THEN <<>>
    ELSE IF i = 0 THEN <<string>>
    ELSE <<Prefix(string, i - 1), Suffix(string, i + 1)>>

\* string.splitn(2, pattern): the pieces the iterator yields, at most two.
\* A string without the pattern (the empty string included) yields itself.
splitn2(string, pattern) ==
    LET i == FirstIndex(string, pattern) IN
    IF i = 0 THEN <<string>>
    ELSE <<Prefix(string, i - 1), Suffix(string, i + 1)>>

\* The mutant drops empty pieces (as split_terminator / filter would).
RECURSIVE split_DropEmpty(_, _)
split_DropEmpty(string, pattern) ==
    LET i == FirstIndex(string, pattern)
        first == IF i = 0 THEN string ELSE Prefix(string, i - 1)
        rest == IF i = 0 THEN <<>> ELSE split_DropEmpty(Suffix(string, i + 1), pattern)
    IN  IF first = <<>> THEN rest ELSE <<first>> \o rest

\* string.split(pattern): every piece between occurrences, empty ones kept.
RECURSIVE split(_, _)
split(string, pattern) ==
    LET i == FirstIndex(string, pattern) IN
    IF i = 0 THEN <<string>>
    ELSE <<Prefix(string, i - 1)>> \o split(Suffix(string, i + 1), pattern)

NoneOpt == [kind |-> "None"]
SomePair(a, b) == [kind |-> "Some", first |-> a, second |-> b]
Panic == [kind |-> "Panic"]

\* fn split_at_str: split.next().unwrap() panics when the iterator is empty
split_at_str(string, pattern) ==
    LET pieces == splitn2(string, pattern) IN
    IF Len(pieces) = 0 THEN Panic
    ELSE IF Len(pieces) >= 2 THEN SomePair(pieces[1], pieces[2])
    ELSE NoneOpt

(***************************************************************************)
(* String literals of the source                                           *)
(***************************************************************************)
ACKNOWLEDGMENTS == <<"a","c","k","n","o","w","l","e","d","g","m","e","n","t","s">>
CANONICAL == <<"c","a","n","o","n","i","c","a","l">>
CONTACT == <<"c","o","n","t","a","c","t">>
ENCRYPTION == <<"e","n","c","r","y","p","t","i","o","n">>
EXPIRES == <<"e","x","p","i","r","e","s">>
HIRING == <<"h","i","r","i","n","g">>
POLICY == <<"p","o","l","i","c","y">>
PREFERRED_LANGUAGES == <<"p","r","e","f","e","r","r","e","d","-","l","a","n","g","u","a","g","e","s">>
HTTP == <<"h","t","t","p">>
HTTPS == <<"h","t","t","p","s">>
WS == <<"w","s">>
WSS == <<"w","s","s">>
FTP == <<"f","t","p">>

(***************************************************************************)
(* Results                                                                 *)
(***************************************************************************)
Ok(v) == [kind |-> "Ok", val |-> v]
\* pub struct ParseError(String)
ParseError(message) == [kind |-> "Err", msg |-> message]
\* the Err of a value parser, holding that library's error variant
LibErr(e) == [kind |-> "LibErr", err |-> e]

(***************************************************************************)
(* url::Url::parse, on the characters the inputs are built from: the input *)
(* is trimmed, must start with a scheme, and for a special scheme must     *)
(* hold a non-empty host of allowed characters and a numeric port.  The    *)
(* parsed URL is normalised (scheme and host lowercased, slashes after the *)
(* scheme collapsed, empty path replaced by "/").                          *)
(***************************************************************************)
SpecialSchemes == { HTTP, HTTPS, WS, WSS, FTP }
ForbiddenHostChars == {" ", "#", "/", ":", "<", ">", "?", "@", "[", "\\", "]", "^", "|", "%"}

RECURSIVE StripSlashes(_)
StripSlashes(s) == IF s # <<>> /\ s[1] \in {"/", "\\"} THEN StripSlashes(Tail(s)) ELSE s

\* Index of the first character of s that is in set cs, Len(s)+1 when none
FirstOf(s, cs) ==
    IF \E i \in DOMAIN s : s[i] \in cs
    THEN CHOOSE i \in DOMAIN s : s[i] \in cs /\ \A j \in 1..(i-1) : s[j] \notin cs
    ELSE Len(s) + 1

Url_parse(input) ==
    LET s == Trim(input)
        i == FirstIndex(s, ":")
        schemeOk == /\ i > 1
                    /\ IsAlpha(s[1])
                    /\ \A j \in 2..(i-1) : IsAlnum(s[j]) \/ s[j] \in {"+", "-", "."}
    IN  IF ~schemeOk THEN LibErr("RelativeUrlWithoutBase")
        ELSE
        LET scheme == to_lowercase(Prefix(s, i - 1))
            rest == Suffix(s, i + 1)
        IN  IF scheme \notin SpecialSchemes
            THEN Ok([scheme |-> scheme, host |-> <<>>, port |-> <<>>, path |-> rest])
            ELSE
            LET r == StripSlashes(rest)
                e == FirstOf(r, {"/", "?", "#"})
                authority == Prefix(r, e - 1)
                tail == Suffix(r, e)
                c == FirstIndex(authority, ":")
                host == IF c = 0 THEN authority ELSE Prefix(authority, c - 1)
                port == IF c = 0 THEN <<>> ELSE Suffix(authority, c + 1)
            IN  IF host = <<>> THEN LibErr("EmptyHost")
                ELSE IF \E k \in DOMAIN host : host[k] \in ForbiddenHostChars
                    THEN LibErr("InvalidDomainCharacter")
                ELSE IF \E k \in DOMAIN port : port[k] \notin DigitChars
                    THEN LibErr("InvalidPort")
                ELSE Ok([scheme |-> scheme, host |-> to_lowercase(host), port |-> port,
                         path |-> IF tail = <<>> \/ tail[1] # "/"
                                  THEN <<"/">> \o tail ELSE tail])

\* impl Display for url::ParseError
UrlErrorDisplay(e) ==
    CASE e = "RelativeUrlWithoutBase" -> "relative URL without a base"
      [] e = "EmptyHost" -> "empty host"
      [] e = "InvalidDomainCharacter" -> "invalid domain character"
      [] e = "InvalidPort" -> "invalid port number"

(***************************************************************************)
(* chrono: DateTime::parse_from_str(string, "").  An empty format has no   *)
(* items: any input left over is TooLong, and an empty input parses to no  *)
(* field at all, which is NotEnough to build a date-time.                  *)
(***************************************************************************)
DateTime_parse_from_str_empty_format(string) ==
    IF string # <<>> THEN LibErr("TooLong") ELSE LibErr("NotEnough")

\* impl Display for chrono::format::ParseError
ChronoErrorDisplay(e) ==
    CASE e = "TooLong" -> "trailing input"
      [] e = "NotEnough" -> "input is not enough for unique date and time"

\* fn parse_rfc5322_datetime
parse_rfc5322_datetime(string) == DateTime_parse_from_str_empty_format(string)

(***************************************************************************)
(* language_tags::LanguageTag::from_str: the tag is trimmed, may hold only *)
(* alphanumerics and '-', its subtags are at most 8 long, and the primary  *)
(* language subtag is alphabetic and at least 2 long (or the private-use   *)
(* singleton x followed by a subtag).  Tags compare case-insensitively, so *)
(* the parsed tag is represented by its lowercased text.                   *)
(***************************************************************************)
LanguageTag_from_str(s) ==
    LET t == Trim(s)
        subtags == split(t, "-")
        lang == IF subtags = <<>> THEN <<>> ELSE subtags[1]
    IN  IF \E i \in DOMAIN t : ~(IsAlnum(t[i]) \/ t[i] = "-") THEN LibErr("ForbiddenChar")
        ELSE IF \E i \in DOMAIN subtags : Len(subtags[i]) > 8 THEN LibErr("SubtagTooLong")
        ELSE IF to_lowercase(lang) = <<"x">>
            THEN IF Len(subtags) < 2 \/ \E i \in 2..Len(subtags) : subtags[i] = <<>>
                 THEN LibErr("EmptyPrivateUse")
                 ELSE Ok(to_lowercase(t))
        ELSE IF Len(lang) < 2 \/ \E i \in DOMAIN lang : ~IsAlpha(lang[i])
            THEN LibErr("InvalidLanguage")
        ELSE IF \E i \in 2..Len(subtags) : subtags[i] = <<>> THEN LibErr("InvalidSubtag")
        ELSE Ok(to_lowercase(t))

\* impl Display for language_tags::Error
LanguageErrorDisplay(e) ==
    CASE e = "ForbiddenChar" -> "The langtag contains a char not allowed"
      [] e = "SubtagTooLong" -> "A subtag may be eight characters in length at maximum"
      [] e = "EmptyPrivateUse" -> "If the x subtag is present, it must not be empty"
      [] e = "InvalidLanguage" -> "The given language subtag is invalid"
      [] e = "InvalidSubtag" -> "A subtag fails to parse, it does not match any other subtags"

\* impl From<url::ParseError> for ParseError
From_url_ParseError(e) == ParseError(UrlErrorDisplay(e))
\* impl From<chrono::format::ParseError> for ParseError
From_chrono_ParseError(e) == ParseError(ChronoErrorDisplay(e))
\* impl From<language_tags::Error> for ParseError
From_language_tags_Error(e) == ParseError(LanguageErrorDisplay(e))

(***************************************************************************)
(* Field::from_str                                                         *)
(***************************************************************************)
\* The message of the grammar error (the source quotes the colon in backquotes)
MISSING_SEPARATOR == "Missing ':'"

DefaultUrl == [scheme |-> <<>>, host |-> <<>>, port |-> <<>>, path |-> <<>>]

\* The mutant swallows the URL parser's error and stores a default URL.
UrlField_Default(variant, value) ==
    LET r == Url_parse(value) IN
    IF r.kind = "LibErr" THEN Ok([variant |-> variant, url |-> DefaultUrl])
    ELSE Ok([variant |-> variant, url |-> r.val])

\* Self::<Variant>(Url::parse(value)?)
UrlField(variant, value) ==
    LET r == Url_parse(value) IN
    IF r.kind = "LibErr" THEN From_url_ParseError(r.err)
    ELSE Ok([variant |-> variant, url |-> r.val])

\* Self::Expires(parse_rfc5322_datetime(value)?)
ExpiresField(value) ==
    LET r == parse_rfc5322_datetime(value) IN
    IF r.kind = "LibErr" THEN From_chrono_ParseError(r.err)
    ELSE Ok([variant |-> "Expires", time |-> r.val])

\* The mutant reports the last error of the sequence instead of the first.
collect_LastErr(results) ==
    IF \E i \in DOMAIN results : results[i].kind = "LibErr"
    THEN results[CHOOSE i \in DOMAIN results :
                    /\ results[i].kind = "LibErr"
                    /\ \A j \in (i+1)..Len(results) : results[j].kind # "LibErr"]
    ELSE Ok([i \in DOMAIN results |-> results[i].val])

\* .collect::<Result<_, _>>(): the first Err met, else the values in order
collect(results) ==
    IF \E i \in DOMAIN results : results[i].kind = "LibErr"
    THEN results[CHOOSE i \in DOMAIN results :
                    /\ results[i].kind = "LibErr"
                    /\ \A j \in 1..(i-1) : results[j].kind # "LibErr"]
    ELSE Ok([i \in DOMAIN results |-> results[i].val])

\* value.split(',').map(|s| LanguageTag::from_str(s)).collect()?
PreferredLanguagesField(value) ==
    LET pieces == split(value, ",")
        r == collect([i \in DOMAIN pieces |-> LanguageTag_from_str(pieces[i])])
    IN  IF r.kind = "LibErr" THEN From_language_tags_Error(r.err)
        ELSE Ok([variant |-> "PreferredLanguages", languages |-> r.val])

\* The mutant stores the lowercased match key instead of the original name.
ExtensionField_Lower(name, value) ==
    Ok([variant |-> "Extension", name |-> to_lowercase(name), value |-> value])

\* Self::Extension(name.into(), value.into())
ExtensionField(name, value) ==
    Ok([variant |-> "Extension", name |-> name, value |-> value])

\* match &*name.to_lowercase() { ... }
Dispatch(name, value) ==
    LET key == to_lowercase(name) IN
    CASE key = ACKNOWLEDGMENTS -> UrlField("Acknowledgments", value)
      [] key = CANONICAL -> UrlField("Canonical", value)
      [] key = CONTACT -> UrlField("Contact", value)
      [] key = ENCRYPTION -> UrlField("Encryption", value)
      [] key = EXPIRES -> ExpiresField(value)
      [] key = HIRING -> UrlField("Hiring", value)
      [] key = POLICY -> UrlField("Policy", value)
      [] key = PREFERRED_LANGUAGES -> PreferredLanguagesField(value)
      [] OTHER -> ExtensionField(name, value)

\* impl FromStr for Field
Field_from_str(string) ==
    LET sp == split_at_str(string, ":") IN
    IF sp.kind = "Panic" THEN Panic
    ELSE IF sp.kind = "Some" THEN Dispatch(sp.first, sp.second)
    ELSE ParseError(MISSING_SEPARATOR)

(***************************************************************************)
(* Line::from_str                                                          *)
(***************************************************************************)
\* The mutant strips every leading '#' (trim_start_matches).
RECURSIVE StripAll(_)
StripAll(s) == IF s # <<>> /\ s[1] = "#" THEN StripAll(Tail(s)) ELSE s
strip_prefix_All(string, prefix) ==
    IF string # <<>> /\ string[1] = prefix
    THEN [kind |-> "Some", val |-> StripAll(string)]
    ELSE NoneOpt

\* str::strip_prefix with a one-character prefix
strip_prefix(string, prefix) ==
    IF string # <<>> /\ string[1] = prefix
    THEN [kind |-> "Some", val |-> Tail(string)]
    ELSE NoneOpt

\* The mutant trims the line before handing it to the field parser and
\* treats a blank line as an empty comment.
Line_from_str_Trim(string) ==
    LET sp == strip_prefix(string, "#") IN
    IF sp.kind = "Some" THEN Ok([variant |-> "Comment", text |-> sp.val])
    ELSE IF Trim(string) = <<>> THEN Ok([variant |-> "Comment", text |-> <<>>])
    ELSE LET f == Field_from_str(Trim(string)) IN
         IF f.kind = "Ok" THEN Ok([variant |-> "Field", field |-> f.val]) ELSE f

\* impl FromStr for Line
Line_from_str(string) ==
    LET sp == strip_prefix(string, "#") IN
    IF sp.kind = "Some" THEN Ok([variant |-> "Comment", text |-> sp.val])
    ELSE LET f == Field_from_str(string) IN
         IF f.kind = "Ok" THEN Ok([variant |-> "Field", field |-> f.val]) ELSE f

(***************************************************************************)
(* Inputs: lines built from a field name, a colon and a value, lines that  *)
(* are a bare value, and comment lines.  Values are concatenations of at   *)
(* most MaxValueTokens tokens.                                             *)
(***************************************************************************)
MaxValueTokens == 3

EN == <<"e","n">>
ABC_COM == <<"/","/","a","b","c",".","c","o","m">>
Tokens == { EN, HTTPS, ABC_COM, <<",">>, <<":">>, <<" ">> }

RECURSIVE TokenSeqs(_)
TokenSeqs(n) ==
    IF n = 0 THEN {<<>>}
    ELSE LET shorter == TokenSeqs(n - 1) IN
         shorter \cup {v \o t : v \in shorter, t \in Tokens}

Values == TokenSeqs(MaxValueTokens)

to_uppercase(s) == [i \in DOMAIN s |-> UpperChar(s[i])]
Capitalized(s) == [i \in DOMAIN s |-> IF i = 1 THEN UpperChar(s[i]) ELSE s[i]]
Casings(s) == {s, to_uppercase(s), Capitalized(s)}

UrlNames == {ACKNOWLEDGMENTS, CANONICAL, CONTACT, ENCRYPTION, HIRING, POLICY}
KnownNames == UrlNames \cup {EXPIRES, PREFERRED_LANGUAGES}

X_CUSTOM == <<"X","-","C","u","s","t","o","m">>
UnknownNames == { X_CUSTOM, <<>>, CONTACT \o <<"s">>, <<" ">> \o CONTACT, <<"#">>, <<"#", "#">> }

Names == UNION {Casings(n) : n \in KnownNames} \cup UnknownNames

\* A well-formed RFC 5322 date-time with a numeric offset
RFC5322_EXAMPLE == <<"1"," ","J","a","n"," ","2","0","3","0"," ","0","0",":","0","0",":","0","0"," ","+","0","0","0","0">>

Lines ==
    {n \o <<":">> \o v : n \in Names, v \in Values}
    \cup Values
    \cup {<<"#">> \o v : v \in Values}
    \cup {n \o <<":">> \o RFC5322_EXAMPLE : n \in Casings(EXPIRES)}

(***************************************************************************)
(* The state machine: a line is drawn, and each of the two entry points    *)
(* (parse_field, parse_line) is applied to it once, in either order.       *)
(***************************************************************************)
NotCalled == [kind |-> "NotCalled"]

Init ==
    /\ line \in Lines
    /\ fieldResult = NotCalled
    /\ lineResult = NotCalled

\* parse_field(line)
ParseField ==
    /\ fieldResult = NotCalled
    /\ fieldResult' = Field_from_str(line)
    /\ UNCHANGED <<line, lineResult>>

\* parse_line(line)
ParseLine ==
    /\ lineResult = NotCalled
    /\ lineResult' = Line_from_str(line)
    /\ UNCHANGED <<line, fieldResult>>

Next == ParseField \/ ParseLine

Spec == Init /\ [][Next]_vars

(***************************************************************************)
(* Vocabulary of the properties, stated on the input line itself           *)
(***************************************************************************)
HasColon(l) == \E i \in DOMAIN l : l[i] = ":"
\* the text before / after the first colon of a line that has one
NameOf(l) == Prefix(l, FirstIndex(l, ":") - 1)
ValueOf(l) == Suffix(l, FirstIndex(l, ":") + 1)
\* equality of two strings up to letter case
SameIgnoringCase(a, b) ==
    Len(a) = Len(b) /\ \A i \in DOMAIN a : LowerChar(a[i]) = LowerChar(b[i])
IsKnown(l, n) == HasColon(l) /\ SameIgnoringCase(NameOf(l), n)
VariantOf(n) ==
    CASE n = ACKNOWLEDGMENTS -> "Acknowledgments"
      [] n = CANONICAL -> "Canonical"
      [] n = CONTACT -> "Contact"
      [] n = ENCRYPTION -> "Encryption"
      [] n = HIRING -> "Hiring"
      [] n = POLICY -> "Policy"
UrlVariants == {VariantOf(n) : n \in UrlNames}

\* the comma-delimited elements of a value, taken literally: element j is the
\* text between comma j-1 and comma j
CommaCount(v) == Cardinality({i \in DOMAIN v : v[i] = ","})
CommaAt(v, j) ==
    IF j = 0 THEN 0
    ELSE IF j > CommaCount(v) THEN Len(v) + 1
    ELSE CHOOSE i \in DOMAIN v :
            v[i] = "," /\ Cardinality({m \in 1..i : v[m] = ","}) = j
Elements(v) ==
    [j \in 1..(CommaCount(v) + 1) |-> SubSeq(v, CommaAt(v, j - 1) + 1, CommaAt(v, j) - 1)]
TagResults(v) == [j \in DOMAIN Elements(v) |-> LanguageTag_from_str(Elements(v)[j])]
FirstRejected(v) ==
    CHOOSE j \in DOMAIN TagResults(v) :
        /\ TagResults(v)[j].kind = "LibErr"
        /\ \A m \in 1..(j-1) : TagResults(v)[m].kind = "Ok"

HTTPS_ABC_COM == HTTPS \o <<":">> \o ABC_COM

(***************************************************************************)
(* C1: for each of the six URL-typed names in any letter-casing and every  *)
(* value the URL parser accepts, parse_field("<name>:V") is Ok with the    *)
(* variant of that name holding the URL parsed from V.                     *)
(***************************************************************************)
C1_UrlFieldsParse ==
    fieldResult # NotCalled =>
        \A n \in UrlNames :
            (IsKnown(line, n) /\ Url_parse(ValueOf(line)).kind = "Ok") =>
                fieldResult = Ok([variant |-> VariantOf(n),
                                  url |-> Url_parse(ValueOf(line)).val])

\* "Acknowledgments:https://abc.com" has been parsed to Field::Acknowledgments
C1_Witness ==
    /\ line = Capitalized(ACKNOWLEDGMENTS) \o <<":">> \o HTTPS_ABC_COM
    /\ fieldResult = Ok([variant |-> "Acknowledgments",
                         url |-> [scheme |-> HTTPS, host |-> Suffix(ABC_COM, 3),
                                  port |-> <<>>, path |-> <<"/">>]])

(***************************************************************************)
(* C2: an Expires line whose value is a well-formed date-time with an      *)
(* explicit UTC offset parses to Ok(Field::Expires(t)).                    *)
(***************************************************************************)
C2_ExpiresParses ==
    (/\ fieldResult # NotCalled
     /\ IsKnown(line, EXPIRES)
     /\ ValueOf(line) = RFC5322_EXAMPLE)
    => (fieldResult.kind = "Ok" /\ fieldResult.val.variant = "Expires")

(***************************************************************************)
(* C3: for every input without a colon (the empty string included)         *)
(* parse_field returns the missing-separator ParseError: no panic, no      *)
(* Field.                                                                  *)
(***************************************************************************)
C3_NoColonIsGrammarError ==
    (fieldResult # NotCalled /\ ~HasColon(line)) =>
        fieldResult = ParseError(MISSING_SEPARATOR)

\* the empty string has been parsed
C3_Witness == line = <<>> /\ fieldResult = ParseError(MISSING_SEPARATOR)

(***************************************************************************)
(* C4: for every line with a colon whose name equals none of the eight     *)
(* known names up to case, parse_field succeeds with Extension(name,       *)
(* value): the name in its original case, the value unmodified.            *)
(***************************************************************************)
C4_UnknownNameIsExtension ==
    (/\ fieldResult # NotCalled
     /\ HasColon(line)
     /\ \A n \in KnownNames : ~SameIgnoringCase(NameOf(line), n))
    => fieldResult = Ok([variant |-> "Extension",
                         name |-> NameOf(line), value |-> ValueOf(line)])

\* "X-Custom:en" has been parsed to Extension("X-Custom", "en")
C4_Witness ==
    /\ line = X_CUSTOM \o <<":">> \o EN
    /\ fieldResult = Ok([variant |-> "Extension", name |-> X_CUSTOM, value |-> EN])

(***************************************************************************)
(* C5: for a Preferred-Languages line, if every comma-delimited element is *)
(* a valid tag the result is PreferredLanguages with one tag per element   *)
(* in the order of the value; otherwise the result is the ParseError of    *)
(* the leftmost invalid element, never a partial list.                     *)
(***************************************************************************)
C5_LanguagesInOrderOrFirstError ==
    (fieldResult # NotCalled /\ IsKnown(line, PREFERRED_LANGUAGES)) =>
        LET res == TagResults(ValueOf(line)) IN
        IF \A j \in DOMAIN res : res[j].kind = "Ok"
        THEN fieldResult = Ok([variant |-> "PreferredLanguages",
                               languages |-> [j \in DOMAIN res |-> res[j].val]])
        ELSE fieldResult =
                ParseError(LanguageErrorDisplay(res[FirstRejected(ValueOf(line))].err))

\* "PREFERRED-LANGUAGES::," (a forbidden character, then an empty element)
\* has been parsed to the error of the first element
C5_Witness ==
    /\ line = to_uppercase(PREFERRED_LANGUAGES) \o <<":", ":", ",">>
    /\ fieldResult = ParseError(LanguageErrorDisplay("ForbiddenChar"))

(***************************************************************************)
(* C6: for every line whose first character is '#', parse_line returns     *)
(* Comment(rest), rest being the line without that one leading '#',        *)
(* verbatim; it is never an error and never the field parser's result.     *)
(***************************************************************************)
C6_CommentVerbatim ==
    (lineResult # NotCalled /\ line # <<>> /\ line[1] = "#") =>
        lineResult = Ok([variant |-> "Comment", text |-> Tail(line)])

\* "##: en" has been parsed to Comment("#: en")
C6_Witness ==
    /\ line = <<"#", "#", ":", " ", "e", "n">>
    /\ lineResult = Ok([variant |-> "Comment", text |-> <<"#", ":", " ", "e", "n">>])

(***************************************************************************)
(* C7: a variant other than Extension is returned only when its value      *)
(* parser accepted the value; a known name whose value its parser rejects  *)
(* yields the ParseError carrying that parser's message: no panic, no      *)
(* default value, no fallback to Extension.                                *)
(***************************************************************************)
C7_RejectedValueIsError ==
    fieldResult # NotCalled =>
        /\ \A n \in UrlNames :
              (IsKnown(line, n) /\ Url_parse(ValueOf(line)).kind = "LibErr") =>
                  fieldResult = ParseError(UrlErrorDisplay(Url_parse(ValueOf(line)).err))
        /\ (IsKnown(line, EXPIRES) /\ parse_rfc5322_datetime(ValueOf(line)).kind = "LibErr") =>
              fieldResult =
                ParseError(ChronoErrorDisplay(parse_rfc5322_datetime(ValueOf(line)).err))
        /\ (/\ IsKnown(line, PREFERRED_LANGUAGES)
            /\ \E j \in DOMAIN TagResults(ValueOf(line)) :
                  TagResults(ValueOf(line))[j].kind = "LibErr")
           => /\ fieldResult.kind = "Err"
              /\ \E j \in DOMAIN TagResults(ValueOf(line)) :
                    /\ TagResults(ValueOf(line))[j].kind = "LibErr"
                    /\ fieldResult.msg = LanguageErrorDisplay(TagResults(ValueOf(line))[j].err)
        /\ (fieldResult.kind = "Ok" /\ fieldResult.val.variant \in UrlVariants) =>
              /\ Url_parse(ValueOf(line)).kind = "Ok"
              /\ fieldResult.val.url = Url_parse(ValueOf(line)).val
        /\ (fieldResult.kind = "Ok" /\ fieldResult.val.variant = "Expires") =>
              parse_rfc5322_datetime(ValueOf(line)).kind = "Ok"
        /\ (fieldResult.kind = "Ok" /\ fieldResult.val.variant = "PreferredLanguages") =>
              \A j \in DOMAIN TagResults(ValueOf(line)) :
                  TagResults(ValueOf(line))[j].kind = "Ok"

\* "Contact:en en" (no scheme) has been parsed to the URL parser's error
C7_Witness ==
    /\ line = Capitalized(CONTACT) \o <<":">> \o EN \o <<" ">> \o EN
    /\ fieldResult = ParseError("relative URL without a base")

(***************************************************************************)
(* C8: for every line that does not start with '#' (the empty line         *)
(* included) parse_line is Ok(Line::Field(f)) exactly when parse_field of  *)
(* the whole line is Ok(f), and is the same ParseError otherwise; the      *)
(* empty line yields the missing-separator error.                          *)
(***************************************************************************)
C8_LineWrapsField ==
    (/\ lineResult # NotCalled
     /\ fieldResult # NotCalled
     /\ ~(line # <<>> /\ line[1] = "#"))
    => /\ fieldResult.kind = "Ok" =>
              lineResult = Ok([variant |-> "Field", field |-> fieldResult.val])
       /\ fieldResult.kind # "Ok" => lineResult = fieldResult
       /\ lineResult.kind = "Ok" => fieldResult.kind = "Ok"
       /\ line = <<>> => lineResult = ParseError(MISSING_SEPARATOR)

\* both entry points have parsed the empty line
C8_Witness ==
    /\ line = <<>>
    /\ fieldResult = ParseError(MISSING_SEPARATOR)
    /\ lineResult = ParseError(MISSING_SEPARATOR)

(***************************************************************************)
(* C9: parse_field splits a line at its first colon only: the name holds   *)
(* no colon, the value is everything after it (further colons included),   *)
(* and name, ":" and value put together are the input line.                *)
(***************************************************************************)
C9_SplitAtFirstColon ==
    (fieldResult # NotCalled /\ HasColon(line)) =>
        LET sp == split_at_str(line, ":") IN
        /\ sp.kind = "Some"
        /\ \A i \in DOMAIN sp.first : sp.first[i] # ":"
        /\ sp.first \o <<":">> \o sp.second = line
        /\ (fieldResult.kind = "Ok" /\ fieldResult.val.variant = "Extension") =>
              /\ fieldResult.val.name = sp.first
              /\ fieldResult.val.value = sp.second
              /\ fieldResult.val.name \o <<":">> \o fieldResult.val.value = line

\* "X-Custom::en:" has been split into "X-Custom" and ":en:"
C9_Witness ==
    /\ line = X_CUSTOM \o <<":", ":", "e", "n", ":">>
    /\ fieldResult = Ok([variant |-> "Extension", name |-> X_CUSTOM,
                         value |-> <<":", "e", "n", ":">>])

(***************************************************************************)
(* C10: the value of a Preferred-Languages line is split literally on ',': *)
(* k commas give exactly k+1 elements, none trimmed or dropped, and the    *)
(* field fails whenever the language-tag parser rejects one of them (an    *)
(* empty or whitespace-bearing one included).                              *)
(***************************************************************************)
C10_LiteralCommaSplit ==
    (fieldResult # NotCalled /\ IsKnown(line, PREFERRED_LANGUAGES)) =>
        LET v == ValueOf(line) IN
        /\ Len(split(v, ",")) = CommaCount(v) + 1
        /\ split(v, ",") = Elements(v)
        /\ (\E j \in DOMAIN Elements(v) : LanguageTag_from_str(Elements(v)[j]).kind = "LibErr")
              => fieldResult.kind = "Err"
        /\ fieldResult.kind = "Ok" =>
              Len(fieldResult.val.languages) = CommaCount(v) + 1

\* "preferred-languages:en,," (two adjacent commas, the second trailing) has
\* failed on the empty element
C10_Witness ==
    /\ line = PREFERRED_LANGUAGES \o <<":">> \o EN \o <<",", ",">>
    /\ fieldResult = ParseError(LanguageErrorDisplay("InvalidLanguage"))

====
